---- MODULE Spec2Model ----
(***************************************************************************)
(* A model of grafana/authlib's two engines:                               *)
(*   - authn.DefaultKeyRetriever (src/authn/jwks.go): cache-first key      *)
(*     resolution with a singleflight-deduplicated remote key-set fetch;   *)
(*   - authn.VerifierBase.Verify (src/authn/verifier.go);                  *)
(*   - authz.LegacyClientImpl.Check (src/pkg/ac/client/client_test.go,     *)
(*     lines 107-569): validation, namespace check, cached permission      *)
(*     resolution and scope/wildcard evaluation.                           *)
(* Each engine has its own specification (SpecKeys, SpecVerify, SpecCheck, *)
(* SpecCheckConc); the variables of the other engines stay at their        *)
(* initial value.                                                          *)
(***************************************************************************)
EXTENDS Integers, Sequences, FiniteSets, TLC

VARIABLES
    \* Key Provider (DefaultKeyRetriever)
    kcache,     \* s.c: key id -> cache entry
    group,      \* s.s: singleflight key -> the call in progress (0: none)
    calls,      \* the singleflight calls made so far, with their outcome
    getters,    \* the callers of Get and where each one is
    ngets,      \* Get calls started
    \* Permission Decision Engine (LegacyClientImpl)
    accessTokenAuthEnabled,  \* c.authCfg.accessTokenAuthEnabled
    req,        \* the CheckRequest the callers present
    pcache,     \* c.cache: cache key -> cache entry
    checkers,   \* the callers of Check and where each one is
    nchecks,    \* Check calls started
    reads,      \* remote permission-read calls issued
    pfault,     \* a cache fault, a failed read or an expiry has happened
    ctxDone,    \* per caller: the context it passes to Check is done
    watchers,   \* per caller: the watcher goroutines started on its context
                \* that are still running
    cachedFor,  \* per cache key: the (tenant, subject, action) whose
                \* permission set the entry holds
    \* Token Verifier (VerifierBase)
    token,      \* the token presented to Verify
    vcfg,       \* v.cfg and v.tokenType
    now,        \* time.Now(), in minutes
    verified,   \* the outcome of Verify
    \* Permission search (the test's client and its CacheWrap)
    testCache,  \* the CacheWrap: the local cache and the success counters
    searcher,   \* the caller of SearchUserPermissions and where it is
    searches    \* the calls that have returned, in order

kvars == <<kcache, group, calls, getters, ngets>>

cvars == <<accessTokenAuthEnabled, req, pcache, checkers, nchecks, reads, pfault,
           ctxDone, watchers, cachedFor>>

vvars == <<token, vcfg, now, verified>>

svars == <<testCache, searcher, searches>>

vars == <<kvars, cvars, vvars, svars>>

(***************************************************************************)
(* Bounds of the model.                                                    *)
(***************************************************************************)
\* Concurrent callers of DefaultKeyRetriever.Get.
NumCallers == 2

\* Get calls started in one behaviour (all callers together).
MaxGets == 2

(***************************************************************************)
(* The cache abstraction (cache.Cache as the two engines use it).          *)
(***************************************************************************)
NoExpiration == "NoExpiration"

\* jwks.go:22: the TTL of the known-invalid placeholder.
cacheTTL == "cacheTTL"

Absent == [present |-> FALSE, data |-> <<>>, ttl |-> NoExpiration]

\* cache.Get: the bytes, or the distinguished not-found error.
CacheGet(cache, key) ==
    IF cache[key].present
    THEN [data |-> cache[key].data, err |-> "nil"]
    ELSE [data |-> <<>>, err |-> "ErrNotFound"]

\* cache.Set: the entry is replaced wholesale.
CacheSet(cache, key, data, ttl) ==
    [cache EXCEPT ![key] = [present |-> TRUE, data |-> data, ttl |-> ttl]]

(***************************************************************************)
(* Key Provider: src/authn/jwks.go                                         *)
(***************************************************************************)
KeyIDs == {"k1", "k2"}

Callers == 1..NumCallers

NilJWK == [nil |-> TRUE, KeyID |-> ""]

JWK(kid) == [nil |-> FALSE, KeyID |-> kid]

\* json.NewEncoder(&buf).Encode(&key): a non-empty byte string naming the key.
jsonEncodeJWK(key) == <<"{", key.KeyID, "}">>

\* json.NewDecoder(...).Decode(&jwk)
jsonDecodeJWK(data) ==
    IF Len(data) = 3 /\ data[1] = "{" /\ data[3] = "}"
    THEN [ok |-> TRUE, jwk |-> JWK(data[2])]
    ELSE [ok |-> FALSE, jwk |-> NilJWK]

\* getCachedItem: (jwk, ok).  An empty byte slice is the known-invalid mark.
getCachedItem(cache, keyID) ==
    LET r == CacheGet(cache, keyID) IN
    IF r.err # "nil" THEN [jwk |-> NilJWK, ok |-> FALSE]
    ELSE IF Len(r.data) = 0 THEN [jwk |-> NilJWK, ok |-> TRUE]
    ELSE LET d == jsonDecodeJWK(r.data) IN
         IF ~d.ok THEN [jwk |-> NilJWK, ok |-> FALSE]
         ELSE [jwk |-> d.jwk, ok |-> TRUE]

\* The TTL setCachedItem stores a fetched key with.
KeyTTLNoExpiry == NoExpiration

KeyTTLBounded == cacheTTL

KeyTTL == KeyTTLNoExpiry

\* setCachedItem: the key under its own KeyID, never expiring.
setCachedItem(cache, key) ==
    CacheSet(cache, key.KeyID, jsonEncodeJWK(key), KeyTTL)

\* The TTL setEmptyCacheItem stores the placeholder with.
EmptyTTLBounded == cacheTTL

EmptyTTLForever == NoExpiration

EmptyTTL == EmptyTTLBounded

\* setEmptyCacheItem: the empty placeholder with the bounded TTL.
setEmptyCacheItem(cache, keyID) ==
    CacheSet(cache, keyID, <<>>, EmptyTTL)

\* The loop of Get, lines 52-54: every key of the fetched set is cached.
RECURSIVE storeKeys(_, _)
storeKeys(cache, kids) ==
    IF kids = {} THEN cache
    ELSE LET k == CHOOSE x \in kids : TRUE IN
         storeKeys(setCachedItem(cache, JWK(k)), kids \ {k})

StatusOK == 200

\* What the key-set endpoint can answer to one GET.
HttpResponses ==
    {[transport |-> "error", status |-> 0, body |-> "none", keys |-> {}],
     [transport |-> "ok", status |-> 500, body |-> "none", keys |-> {}],
     [transport |-> "ok", status |-> StatusOK, body |-> "garbage", keys |-> {}]}
    \cup {[transport |-> "ok", status |-> StatusOK, body |-> "jwks", keys |-> S] :
            S \in SUBSET KeyIDs}

\* No answer yet.
NoResponse == [transport |-> "pending", status |-> 0, body |-> "none", keys |-> {}]

\* fetchJWKS that takes an undecodable body for an empty key set.
fetchJWKSNoDecodeError(resp) ==
    IF resp.transport = "error"
    THEN [keys |-> {}, err |-> "ErrFetchingSigningKey"]
    ELSE IF resp.status # StatusOK
    THEN [keys |-> {}, err |-> "ErrFetchingSigningKey"]
    ELSE [keys |-> resp.keys, err |-> "nil"]

\* fetchJWKS: (key set, error)
fetchJWKS(resp) ==
    IF resp.transport = "error"
    THEN [keys |-> {}, err |-> "ErrFetchingSigningKey"]
    ELSE IF resp.status # StatusOK
    THEN [keys |-> {}, err |-> "ErrFetchingSigningKey"]
    ELSE IF resp.body # "jwks"
    THEN [keys |-> {}, err |-> "ErrFetchingSigningKey"]
    ELSE [keys |-> resp.keys, err |-> "nil"]

\* The singleflight key of Get, line 46: one key for every key id.
SfKeyGlobal(keyID) == "fetch"

SfKeyPerKeyID(keyID) == keyID

SfKey(keyID) == SfKeyGlobal(keyID)

SfKeys == {"fetch"} \cup KeyIDs

IdleGetter ==
    [pc |-> "idle", keyID |-> "", n |-> 0, hit |-> "none", call |-> 0,
     leader |-> FALSE, inflightAtEnter |-> 0, doErr |-> "nil",
     recheck |-> "none", wrote |-> {}, doneAtLookup |-> {},
     callsAtLookup |-> 0, ctxDone |-> FALSE,
     jwk |-> NilJWK, err |-> "nil"]

\* The calls that have completed (their singleflight entry is gone).
DoneCalls == {i \in 1..Len(calls) : calls[i].state = "done"}

\* The fetches whose HTTP round trip is in progress.
InFlight == {i \in 1..Len(calls) : calls[i].state = "running"}

\* Get, lines 72-76: the return of a looked-up (jwk, ok).
GetReturn(g, jwk) ==
    [g EXCEPT !.pc = "done", !.jwk = jwk,
              !.err = IF jwk.nil THEN "ErrInvalidSigningKey" ELSE "nil"]

\* Get, line 44: the first cache lookup; a hit returns, a miss goes to Do.
GetLookup(c, k) ==
    /\ getters[c].pc \in {"idle", "done"}
    /\ ngets < MaxGets
    /\ ngets' = ngets + 1
    /\ LET r == getCachedItem(kcache, k)
           g == [IdleGetter EXCEPT !.keyID = k, !.n = getters[c].n + 1,
                                   !.doneAtLookup = DoneCalls,
                                   !.callsAtLookup = Len(calls),
                                   !.hit = IF ~r.ok THEN "miss"
                                           ELSE IF r.jwk.nil THEN "empty"
                                           ELSE "key"]
       IN getters' = [getters EXCEPT ![c] =
                         IF r.ok THEN GetReturn(g, r.jwk)
                         ELSE [g EXCEPT !.pc = "do"]]
    /\ UNCHANGED <<kcache, group, calls, cvars, vvars, svars>>

\* singleflight.Group.Do, entry: the first caller for the key runs the
\* function (and issues the GET), a later one waits for that call.
DoEnter(c) ==
    /\ getters[c].pc = "do"
    /\ LET key == SfKey(getters[c].keyID)
           running == IF InFlight = {} THEN 0 ELSE CHOOSE i \in InFlight : TRUE
       IN IF group[key] = 0
          THEN /\ calls' = Append(calls, [state |-> "running", err |-> "nil",
                                          resp |-> NoResponse, key |-> key])
               /\ group' = [group EXCEPT ![key] = Len(calls) + 1]
               /\ getters' = [getters EXCEPT ![c].pc = "fetching",
                                             ![c].call = Len(calls) + 1,
                                             ![c].leader = TRUE,
                                             ![c].inflightAtEnter = running]
          ELSE /\ getters' = [getters EXCEPT ![c].pc = "waiting",
                                             ![c].call = group[key],
                                             ![c].inflightAtEnter = running]
               /\ UNCHANGED <<calls, group>>
    /\ UNCHANGED <<kcache, ngets, cvars, vvars, svars>>

\* The function given to Do, lines 47-56: the GET answers; on success
\* every key of the set is cached.
FetchReturn(c, resp) ==
    /\ getters[c].pc = "fetching"
    /\ LET r == fetchJWKS(resp)
           id == getters[c].call
       IN /\ calls' = [calls EXCEPT ![id].state = "returned",
                                    ![id].err = r.err, ![id].resp = resp]
          /\ kcache' = IF r.err = "nil" THEN storeKeys(kcache, r.keys) ELSE kcache
          /\ getters' = [getters EXCEPT ![c].pc = "doCall",
                            ![c].wrote = IF r.err = "nil"
                                         THEN {[key |-> k, data |-> jsonEncodeJWK(JWK(k)),
                                                ttl |-> KeyTTL] : k \in r.keys}
                                         ELSE {}]
    /\ UNCHANGED <<group, ngets, cvars, vvars, svars>>

\* Get, lines 59-61, after Do returned err: an error ends the Get.
AfterDo(g, err) ==
    IF err # "nil"
    THEN [g EXCEPT !.pc = "done", !.doErr = err, !.err = err, !.jwk = NilJWK]
    ELSE [g EXCEPT !.pc = "recheck", !.doErr = err]

\* What singleflight does to its map when the function has returned.
ForgetCall(key) == [group EXCEPT ![key] = 0]

KeepFailedCall(key) ==
    IF calls[group[key]].err # "nil" THEN group ELSE [group EXCEPT ![key] = 0]

GroupAfterCall(key) == ForgetCall(key)

\* singleflight doCall, after the function: the call is removed from the
\* group and its waiters are released; the leader's Do returns.
DoCallDone(c) ==
    /\ getters[c].pc = "doCall"
    /\ LET id == getters[c].call IN
       /\ group' = GroupAfterCall(calls[id].key)
       /\ calls' = [calls EXCEPT ![id].state = "done"]
       /\ getters' = [getters EXCEPT ![c] = AfterDo(getters[c], calls[id].err)]
    /\ UNCHANGED <<kcache, ngets, cvars, vvars, svars>>

\* singleflight.Group.Do, a waiter: it returns the call's result once the
\* call is done.
WaitReturn(c) ==
    /\ getters[c].pc = "waiting"
    /\ calls[getters[c].call].state = "done"
    /\ getters' = [getters EXCEPT ![c] = AfterDo(getters[c], calls[getters[c].call].err)]
    /\ UNCHANGED <<kcache, group, calls, ngets, cvars, vvars, svars>>

\* Get, lines 63-64: the second lookup.
Recheck(c) ==
    /\ getters[c].pc = "recheck"
    /\ LET r == getCachedItem(kcache, getters[c].keyID)
           g == [getters[c] EXCEPT !.recheck = IF ~r.ok THEN "miss"
                                               ELSE IF r.jwk.nil THEN "empty"
                                               ELSE "key"]
       IN getters' = [getters EXCEPT ![c] =
                         IF r.ok THEN GetReturn(g, r.jwk)
                         ELSE [g EXCEPT !.pc = "setEmpty"]]
    /\ UNCHANGED <<kcache, group, calls, ngets, cvars, vvars, svars>>

\* Get, lines 65-76: the key id is cached as known-invalid, and the Get fails.
SetEmpty(c) ==
    /\ getters[c].pc = "setEmpty"
    /\ kcache' = setEmptyCacheItem(kcache, getters[c].keyID)
    /\ getters' = [getters EXCEPT ![c] =
                      GetReturn([getters[c] EXCEPT
                                    !.wrote = @ \cup {[key |-> getters[c].keyID,
                                                       data |-> <<>>,
                                                       ttl |-> EmptyTTL]}],
                                NilJWK)]
    /\ UNCHANGED <<group, calls, ngets, cvars, vvars, svars>>

\* The local cache drops an entry whose TTL has run out.
KeyExpire(k) ==
    /\ kcache[k].present
    /\ kcache[k].ttl # NoExpiration
    /\ kcache' = [kcache EXCEPT ![k] = Absent]
    /\ UNCHANGED <<group, calls, getters, ngets, cvars, vvars, svars>>

\* The caller of a Get that has not returned cancels the context it passed
\* (or its deadline passes).
GetCtxCancel(c) ==
    /\ getters[c].pc \notin {"idle", "done"}
    /\ ~getters[c].ctxDone
    /\ getters' = [getters EXCEPT ![c].ctxDone = TRUE]
    /\ UNCHANGED <<kcache, group, calls, ngets, cvars, vvars, svars>>

\* fetchJWKS, lines 80-88: the request carries the context of the caller
\* that runs the function; once that context is done http.DefaultClient.Do
\* returns an error, whatever the endpoint does.
FetchAbort(c) ==
    /\ getters[c].ctxDone
    /\ FetchReturn(c, [transport |-> "error", status |-> 0, body |-> "none",
                       keys |-> {}])

KeysInit ==
    /\ kcache = [k \in KeyIDs |-> Absent]
    /\ group = [k \in SfKeys |-> 0]
    /\ calls = <<>>
    /\ getters = [c \in Callers |-> IdleGetter]
    /\ ngets = 0

KeysNext ==
    \/ \E c \in Callers, k \in KeyIDs : GetLookup(c, k)
    \/ \E c \in Callers : DoEnter(c)
    \/ \E c \in Callers, resp \in HttpResponses : FetchReturn(c, resp)
    \/ \E c \in Callers : DoCallDone(c)
    \/ \E c \in Callers : WaitReturn(c)
    \/ \E c \in Callers : Recheck(c)
    \/ \E c \in Callers : SetEmpty(c)
    \/ \E k \in KeyIDs : KeyExpire(k)

(***************************************************************************)
(* Permission Decision Engine: src/pkg/ac/client/client_test.go, 107-569   *)
(***************************************************************************)
\* Concurrent callers of LegacyClientImpl.Check (SpecCheckConc).
NumCheckers == 2

\* Check calls started in one behaviour (all callers together).
MaxChecks == 2

Checkers == 1..NumCheckers

\* Strings that the cache key is built from are sequences of characters.
EmptyString == <<>>

StackIDs == {-1, 0, 1}

Actions == {EmptyString, <<"r">>, <<"a", "-", "r">>}

Subjects == {EmptyString, <<"u">>, <<"u", "-", "a">>}

\* claims.NamespaceFormatter (CloudNamespaceFormatter): the tenant's namespace.
namespaceFmt(stackID) == <<"stacks-", stackID>>

Namespaces == {namespaceFmt(1), namespaceFmt(2)}

\* claims.NamespaceMatches
NamespaceMatches(c, expected) == c.namespace = expected

NilAccess ==
    [nil |-> TRUE, namespace |-> namespaceFmt(0), permissions |-> {}, delegated |-> {}]

AccessClaims ==
    {NilAccess} \cup
    [nil : {FALSE}, namespace : Namespaces,
     permissions : {{}, {<<"r">>}},
     delegated : {{}, {<<"r">>}, {<<"a", "-", "r">>}}]

NilIdentity == [nil |-> TRUE, namespace |-> namespaceFmt(0), subject |-> EmptyString]

IdentityClaims ==
    {NilIdentity} \cup [nil : {FALSE}, namespace : Namespaces, subject : Subjects]

NilResource == [nil |-> TRUE, Kind |-> "", Attr |-> "", ID |-> ""]

Resources ==
    {[nil |-> FALSE, Kind |-> "teams", Attr |-> "id", ID |-> "1"],
     [nil |-> FALSE, Kind |-> "teams", Attr |-> "id", ID |-> "2"],
     [nil |-> FALSE, Kind |-> "dash", Attr |-> "", ID |-> "d"]}

\* Every CheckRequest of the model.
Requests ==
    [StackID : StackIDs, Action : Actions, Access : AccessClaims,
     Identity : IdentityClaims, Resource : {NilResource} \cup Resources,
     Contextual : {<<>>} \cup {<<r>> : r \in Resources}]

\* Resource.Scope: kind:attribute:identifier, or kind:identifier.
Scope(r) ==
    IF r.Attr = "" THEN <<r.Kind, r.ID>> ELSE <<r.Kind, r.Attr, r.ID>>

\* splitScope: (kind, identifier) of a granted object.
splitScope(object) ==
    [kind |-> object[1], id |-> object[Len(object)]]

\* The objects a read response can grant.
Objects == {<<"*">>, <<"teams", "*">>, <<"teams", "id", "1">>}

\* authzv1.ReadResponse, or the failure of the call.
ReadResponses ==
    {[err |-> TRUE, nil |-> TRUE, Found |-> FALSE, Data |-> {}],
     [err |-> FALSE, nil |-> TRUE, Found |-> FALSE, Data |-> {}],
     [err |-> FALSE, nil |-> FALSE, Found |-> FALSE, Data |-> {}]}
    \cup {[err |-> FALSE, nil |-> FALSE, Found |-> TRUE, Data |-> D] :
            D \in SUBSET Objects}

\* A Go map[string]bool: nil, or made (possibly empty).
NilMap == [nil |-> TRUE, elems |-> {}]

MakeMap(S) == [nil |-> FALSE, elems |-> S]

NilController == [Found |-> FALSE, Scopes |-> NilMap, Wildcard |-> NilMap]

\* newController
newController(resp) ==
    IF resp.nil \/ ~resp.Found
    THEN [Found |-> FALSE, Scopes |-> NilMap, Wildcard |-> NilMap]
    ELSE [Found |-> TRUE,
          Scopes |-> MakeMap({o \in resp.Data : splitScope(o).id # "*"}),
          Wildcard |-> MakeMap({splitScope(o).kind :
                                  o \in {x \in resp.Data : splitScope(x).id = "*"}})]

\* controller.Check without the universal wildcard.
controllerCheckNoUniversal(r, resources) ==
    IF ~r.Found THEN FALSE
    ELSE IF Len(resources) = 0 THEN TRUE
    ELSE IF r.Scopes.elems = {} /\ r.Wildcard.elems = {} THEN FALSE
    ELSE \E i \in 1..Len(resources) :
            \/ resources[i].Kind \in r.Wildcard.elems
            \/ Scope(resources[i]) \in r.Scopes.elems

\* controller.Check
controllerCheck(r, resources) ==
    IF ~r.Found THEN FALSE
    ELSE IF Len(resources) = 0 THEN TRUE
    ELSE IF r.Scopes.elems = {} /\ r.Wildcard.elems = {} THEN FALSE
    ELSE IF "*" \in r.Wildcard.elems THEN TRUE
    ELSE \E i \in 1..Len(resources) :
            \/ resources[i].Kind \in r.Wildcard.elems
            \/ Scope(resources[i]) \in r.Scopes.elems

itoa(n) ==
    CASE n = -1 -> "-1" [] n = 0 -> "0" [] n = 1 -> "1" [] OTHER -> "2"

\* controllerCacheKey: fmt.Sprintf("read-%d-%s-%s", stackID, subject, action)
controllerCacheKey(stackID, subject, action) ==
    <<"read", "-", itoa(stackID), "-">> \o subject \o <<"-">> \o action

PermKeys ==
    {controllerCacheKey(s, su, a) :
        s \in {x \in StackIDs : x > 0}, su \in Subjects \ {EmptyString},
        a \in Actions \ {EmptyString}}

DefaultExpiration == "DefaultExpiration"

\* Bytes that are no gob stream of a controller.
Garbage ==
    [valid |-> FALSE, found |-> FALSE, scopesSent |-> FALSE, scopes |-> {},
     wildcardSent |-> FALSE, wildcard |-> {}]

\* gob encoding that leaves out an empty map as it leaves out a nil one.
gobEncodeOmitEmpty(ctrl) ==
    [valid |-> TRUE, found |-> ctrl.Found,
     scopesSent |-> ctrl.Scopes.elems # {}, scopes |-> ctrl.Scopes.elems,
     wildcardSent |-> ctrl.Wildcard.elems # {}, wildcard |-> ctrl.Wildcard.elems]

\* gob.NewEncoder(&buf).Encode(*ctrl): a field is sent unless it is false or
\* a nil map; an empty map that is not nil is sent.
gobEncode(ctrl) ==
    [valid |-> TRUE, found |-> ctrl.Found,
     scopesSent |-> ~ctrl.Scopes.nil, scopes |-> ctrl.Scopes.elems,
     wildcardSent |-> ~ctrl.Wildcard.nil, wildcard |-> ctrl.Wildcard.elems]

\* gob.NewDecoder(...).Decode(&ctrl) into a zero controller.
gobDecode(data) ==
    IF ~data.valid THEN [ctrl |-> NilController, err |-> "ErrGobDecode"]
    ELSE [ctrl |-> [Found |-> data.found,
                    Scopes |-> IF data.scopesSent THEN MakeMap(data.scopes) ELSE NilMap,
                    Wildcard |-> IF data.wildcardSent THEN MakeMap(data.wildcard)
                                 ELSE NilMap],
          err |-> "nil"]

\* What the cache backend does to one call: it serves it, fails it, or (on
\* a Get) returns bytes that are not a stored controller.
CacheFaults == {"none", "error", "garbage"}

\* getCachedController that takes bytes it cannot decode for a miss.
getCachedControllerDecodeMiss(cache, key, fault) ==
    LET r == IF fault = "error" THEN [data |-> Garbage, err |-> "ErrCache"]
             ELSE IF fault = "garbage" THEN [data |-> Garbage, err |-> "nil"]
             ELSE CacheGet(cache, key)
    IN IF r.err # "nil" THEN [ctrl |-> NilController, err |-> r.err]
       ELSE IF gobDecode(r.data).err # "nil"
       THEN [ctrl |-> NilController, err |-> "ErrNotFound"]
       ELSE gobDecode(r.data)

\* getCachedController: (ctrl, err)
getCachedController(cache, key, fault) ==
    LET r == IF fault = "error" THEN [data |-> Garbage, err |-> "ErrCache"]
             ELSE IF fault = "garbage" THEN [data |-> Garbage, err |-> "nil"]
             ELSE CacheGet(cache, key)
    IN IF r.err # "nil" THEN [ctrl |-> NilController, err |-> r.err]
       ELSE gobDecode(r.data)

\* CheckRequest.Validate
Validate(r, accessTokenEnabled) ==
    IF r.StackID <= 0 THEN "ErrMissingStackID"
    ELSE IF r.Action = EmptyString THEN "ErrMissingAction"
    ELSE IF accessTokenEnabled /\ r.Access.nil THEN "ErrMissingCaller"
    ELSE IF ~r.Identity.nil /\ r.Identity.subject = EmptyString THEN "ErrMissingSubject"
    ELSE "nil"

\* validateNamespace that looks at the access token only.
validateNamespaceAccessOnly(caller, stackID) ==
    LET expectedNamespace == namespaceFmt(stackID) IN
    \/ ~accessTokenAuthEnabled
    \/ (~caller.Access.nil /\ NamespaceMatches(caller.Access, expectedNamespace))

\* validateNamespace
validateNamespace(caller, stackID) ==
    LET expectedNamespace == namespaceFmt(stackID)
        accessTokenMatch ==
            \/ ~accessTokenAuthEnabled
            \/ (~caller.Access.nil /\ NamespaceMatches(caller.Access, expectedNamespace))
        idTokenMatch ==
            \/ caller.Identity.nil
            \/ NamespaceMatches(caller.Identity, expectedNamespace)
    IN accessTokenMatch /\ idTokenMatch

\* Check, lines 378-389, with the action-only shortcut left out.
EvaluateNoActionOnly(r, res) ==
    IF ~res.Found THEN FALSE
    ELSE controllerCheck(res, r.Contextual \o
                              (IF r.Resource.nil THEN <<>> ELSE <<r.Resource>>))

\* Check, lines 378-389, matching the primary resource only.
EvaluatePrimaryOnly(r, res) ==
    IF ~res.Found THEN FALSE
    ELSE IF r.Resource.nil THEN TRUE
    ELSE controllerCheck(res, <<r.Resource>>)

\* Check, lines 378-389: the decision on a resolved permission set.
Evaluate(r, res) ==
    IF ~res.Found THEN FALSE
    ELSE IF r.Resource.nil THEN TRUE
    ELSE controllerCheck(res, r.Contextual \o <<r.Resource>>)

\* Check without the Validate call.
PreCheckNoValidate(r) ==
    IF ~validateNamespace(r, r.StackID)
    THEN [return |-> TRUE, ok |-> FALSE, err |-> "nil"]
    ELSE IF r.Identity.nil
    THEN IF ~accessTokenAuthEnabled
         THEN [return |-> TRUE, ok |-> TRUE, err |-> "nil"]
         ELSE IF r.Access.nil
         THEN [return |-> TRUE, ok |-> FALSE, err |-> "ErrMissingCaller"]
         ELSE [return |-> TRUE, ok |-> r.Action \in r.Access.permissions, err |-> "nil"]
    ELSE IF accessTokenAuthEnabled /\ r.Access.nil
    THEN [return |-> TRUE, ok |-> FALSE, err |-> "ErrMissingCaller"]
    ELSE IF accessTokenAuthEnabled /\ r.Action \notin r.Access.delegated
    THEN [return |-> TRUE, ok |-> FALSE, err |-> "nil"]
    ELSE [return |-> FALSE, ok |-> FALSE, err |-> "nil"]

\* Check that scans the delegated permissions for a request without a user.
PreCheckServiceByDelegated(r) ==
    IF Validate(r, accessTokenAuthEnabled) # "nil"
    THEN [return |-> TRUE, ok |-> FALSE, err |-> Validate(r, accessTokenAuthEnabled)]
    ELSE IF ~validateNamespace(r, r.StackID)
    THEN [return |-> TRUE, ok |-> FALSE, err |-> "nil"]
    ELSE IF r.Identity.nil
    THEN IF ~accessTokenAuthEnabled
         THEN [return |-> TRUE, ok |-> TRUE, err |-> "nil"]
         ELSE IF r.Access.nil
         THEN [return |-> TRUE, ok |-> FALSE, err |-> "ErrMissingCaller"]
         ELSE [return |-> TRUE, ok |-> r.Action \in r.Access.delegated, err |-> "nil"]
    ELSE IF accessTokenAuthEnabled /\ r.Access.nil
    THEN [return |-> TRUE, ok |-> FALSE, err |-> "ErrMissingCaller"]
    ELSE IF accessTokenAuthEnabled /\ r.Action \notin r.Access.delegated
    THEN [return |-> TRUE, ok |-> FALSE, err |-> "nil"]
    ELSE [return |-> FALSE, ok |-> FALSE, err |-> "nil"]

\* Check that accepts the service's own permission in place of a delegated
\* one.
PreCheckOwnForDelegated(r) ==
    IF Validate(r, accessTokenAuthEnabled) # "nil"
    THEN [return |-> TRUE, ok |-> FALSE, err |-> Validate(r, accessTokenAuthEnabled)]
    ELSE IF ~validateNamespace(r, r.StackID)
    THEN [return |-> TRUE, ok |-> FALSE, err |-> "nil"]
    ELSE IF r.Identity.nil
    THEN IF ~accessTokenAuthEnabled
         THEN [return |-> TRUE, ok |-> TRUE, err |-> "nil"]
         ELSE IF r.Access.nil
         THEN [return |-> TRUE, ok |-> FALSE, err |-> "ErrMissingCaller"]
         ELSE [return |-> TRUE, ok |-> r.Action \in r.Access.permissions, err |-> "nil"]
    ELSE IF accessTokenAuthEnabled /\ r.Access.nil
    THEN [return |-> TRUE, ok |-> FALSE, err |-> "ErrMissingCaller"]
    ELSE IF accessTokenAuthEnabled
            /\ r.Action \notin (r.Access.delegated \cup r.Access.permissions)
    THEN [return |-> TRUE, ok |-> FALSE, err |-> "nil"]
    ELSE [return |-> FALSE, ok |-> FALSE, err |-> "nil"]

\* Check, lines 308-370: what Check decides before it resolves the
\* subject's permission set; return = FALSE when it goes on to resolve it.
PreCheck(r) ==
    IF Validate(r, accessTokenAuthEnabled) # "nil"
    THEN [return |-> TRUE, ok |-> FALSE, err |-> Validate(r, accessTokenAuthEnabled)]
    ELSE IF ~validateNamespace(r, r.StackID)
    THEN [return |-> TRUE, ok |-> FALSE, err |-> "nil"]
    ELSE IF r.Identity.nil
    THEN IF ~accessTokenAuthEnabled
         THEN [return |-> TRUE, ok |-> TRUE, err |-> "nil"]
         ELSE IF r.Access.nil
         THEN [return |-> TRUE, ok |-> FALSE, err |-> "ErrMissingCaller"]
         ELSE [return |-> TRUE, ok |-> r.Action \in r.Access.permissions, err |-> "nil"]
    ELSE IF accessTokenAuthEnabled /\ r.Access.nil
    THEN [return |-> TRUE, ok |-> FALSE, err |-> "ErrMissingCaller"]
    ELSE IF accessTokenAuthEnabled /\ r.Action \notin r.Access.delegated
    THEN [return |-> TRUE, ok |-> FALSE, err |-> "nil"]
    ELSE [return |-> FALSE, ok |-> FALSE, err |-> "nil"]

\* No (tenant, subject, action).
NoTriple == <<>>

IdleChecker ==
    [pc |-> "idle", n |-> 0, ok |-> FALSE, err |-> "nil", resolved |-> FALSE,
     from |-> "none", ctrl |-> NilController, cacheGets |-> 0, cacheSets |-> 0,
     remoteReads |-> 0, readsAtStart |-> 0, lookupFault |-> "none",
     storeFault |-> "none", triple |-> NoTriple, hitFor |-> NoTriple]

\* Check, lines 372-389, deciding on the permission set even when
\* retrievePermissions returned an error with it.
CheckReturnDecideOnError(k, res, err) ==
    [k EXCEPT !.pc = "done", !.ok = Evaluate(req, res), !.err = err,
              !.ctrl = res, !.resolved = (err = "nil")]

\* Check, lines 372-389: the return once retrievePermissions has returned
\* (res, err).
CheckReturn(k, res, err) ==
    IF err # "nil"
    THEN [k EXCEPT !.pc = "done", !.ok = FALSE, !.err = err, !.ctrl = res]
    ELSE [k EXCEPT !.pc = "done", !.ok = Evaluate(req, res), !.err = "nil",
                   !.ctrl = res, !.resolved = TRUE]

\* The cache key retrievePermissions uses for the request.
RequestKey == controllerCacheKey(req.StackID, req.Identity.subject, req.Action)

\* The (tenant id, subject, action) retrievePermissions is called with.
RequestTriple == <<req.StackID, req.Identity.subject, req.Action>>

\* Check, lines 304-370: validation, namespace check and the checks on the
\* service's own permissions.
CheckStart(c) ==
    /\ checkers[c].pc \in {"idle", "done"}
    /\ nchecks < MaxChecks
    /\ nchecks' = nchecks + 1
    /\ LET p == PreCheck(req)
           k == [IdleChecker EXCEPT !.n = checkers[c].n + 1, !.readsAtStart = reads,
                                    !.triple = RequestTriple]
       IN checkers' = [checkers EXCEPT ![c] =
                          IF p.return
                          THEN [k EXCEPT !.pc = "done", !.ok = p.ok, !.err = p.err]
                          ELSE [k EXCEPT !.pc = "cacheGet"]]
    /\ UNCHANGED <<accessTokenAuthEnabled, req, pcache, reads, pfault, ctxDone,
                 watchers, cachedFor, kvars, vvars, svars>>

\* retrievePermissions, lines 412-417: the cache lookup.  Only ErrNotFound
\* leads on to the remote read.
CacheLookup(c, fault) ==
    /\ checkers[c].pc = "cacheGet"
    /\ LET r == getCachedController(pcache, RequestKey, fault)
           k == [checkers[c] EXCEPT !.cacheGets = @ + 1, !.lookupFault = fault,
                                    !.hitFor = IF fault = "none" /\ r.err = "nil"
                                               THEN cachedFor[RequestKey]
                                               ELSE NoTriple]
       IN checkers' = [checkers EXCEPT ![c] =
                          IF r.err = "ErrNotFound"
                          THEN [k EXCEPT !.pc = "read"]
                          ELSE CheckReturn([k EXCEPT !.from = "cache"], r.ctrl, r.err)]
    /\ pfault' = (pfault \/ fault # "none")
    /\ UNCHANGED <<accessTokenAuthEnabled, req, pcache, nchecks, reads, ctxDone,
                 watchers, cachedFor, kvars, vvars, svars>>

\* newOutgoingContext, lines 442-461: a context derived from
\* context.Background() and a goroutine that waits for the caller's context
\* or for the derived one.  The cancel function of the derived context is
\* held by that goroutine alone.
newOutgoingContext(w, c) == [w EXCEPT ![c] = @ + 1]

\* retrievePermissions, lines 419-434: the remote read and newController.
RemoteRead(c, resp) ==
    /\ checkers[c].pc = "read"
    /\ reads' = reads + 1
    /\ LET k == [checkers[c] EXCEPT !.remoteReads = @ + 1, !.from = "remote"] IN
       checkers' = [checkers EXCEPT ![c] =
                       IF resp.err
                       THEN CheckReturn(k, NilController, "ErrReadPermission")
                       ELSE [k EXCEPT !.pc = "cacheSet", !.ctrl = newController(resp)]]
    /\ pfault' = (pfault \/ resp.err)
    /\ watchers' = newOutgoingContext(watchers, c)
    /\ UNCHANGED <<accessTokenAuthEnabled, req, pcache, nchecks, ctxDone,
                   cachedFor, kvars, vvars, svars>>

\* cacheController: (cache, err)
cacheController(cache, key, ctrl, fault) ==
    IF fault # "none" THEN [cache |-> cache, err |-> "ErrCache"]
    ELSE [cache |-> CacheSet(cache, key, gobEncode(ctrl), DefaultExpiration),
          err |-> "nil"]

\* retrievePermissions, lines 436-438, and the rest of Check.
CacheStore(c, fault) ==
    /\ checkers[c].pc = "cacheSet"
    /\ LET r == cacheController(pcache, RequestKey, checkers[c].ctrl, fault)
           k == [checkers[c] EXCEPT !.cacheSets = @ + 1, !.storeFault = fault]
       IN /\ pcache' = r.cache
          /\ cachedFor' = IF r.err = "nil"
                          THEN [cachedFor EXCEPT ![RequestKey] = RequestTriple]
                          ELSE cachedFor
          /\ checkers' = [checkers EXCEPT ![c] = CheckReturn(k, k.ctrl, r.err)]
    /\ pfault' = (pfault \/ fault # "none")
    /\ UNCHANGED <<accessTokenAuthEnabled, req, nchecks, reads, ctxDone, watchers,
                 kvars, vvars, svars>>

\* The cache drops an entry whose TTL has run out.
PermExpire(key) ==
    /\ pcache[key].present
    /\ pcache[key].ttl # NoExpiration
    /\ pcache' = [pcache EXCEPT ![key] = Absent]
    /\ cachedFor' = [cachedFor EXCEPT ![key] = NoTriple]
    /\ pfault' = TRUE
    /\ UNCHANGED <<accessTokenAuthEnabled, req, checkers, nchecks, reads, ctxDone,
                 watchers, kvars, vvars, svars>>

\* The caller cancels the context it passes to Check (or its deadline
\* passes).
CtxCancel(c) ==
    /\ ~ctxDone[c]
    /\ ctxDone' = [ctxDone EXCEPT ![c] = TRUE]
    /\ UNCHANGED <<accessTokenAuthEnabled, req, pcache, checkers, nchecks, reads,
                   pfault, watchers, cachedFor, kvars, vvars, svars>>

\* The derived context is done: only when its cancel function has been
\* called, which the watcher does once the caller's context is done.
outCtxDone(c) == FALSE

\* The watcher goroutine, lines 451-458: it leaves its select when the
\* caller's context is done (and then cancels the derived one) or when the
\* derived context is done.
WatcherExit(c) ==
    /\ watchers[c] > 0
    /\ ctxDone[c] \/ outCtxDone(c)
    /\ watchers' = [watchers EXCEPT ![c] = @ - 1]
    /\ UNCHANGED <<accessTokenAuthEnabled, req, pcache, checkers, nchecks, reads,
                   pfault, ctxDone, cachedFor, kvars, vvars, svars>>

\* The caller turns to another request once its calls have returned.
ChangeRequest(r) ==
    /\ \A c \in Checkers : checkers[c].pc \in {"idle", "done"}
    /\ r # req
    /\ req' = r
    /\ UNCHANGED <<accessTokenAuthEnabled, pcache, checkers, nchecks, reads,
                   pfault, ctxDone, watchers, cachedFor, kvars, vvars, svars>>

\* A client serving one request shape, with an empty cache.
CheckInitWith(R, E) ==
    /\ accessTokenAuthEnabled \in E
    /\ req \in R
    /\ pcache = [key \in PermKeys |-> Absent]
    /\ checkers = [c \in Checkers |-> IdleChecker]
    /\ nchecks = 0
    /\ reads = 0
    /\ pfault = FALSE
    /\ ctxDone = [c \in Checkers |-> FALSE]
    /\ watchers = [c \in Checkers |-> 0]
    /\ cachedFor = [key \in PermKeys |-> NoTriple]

\* The engine while another engine is exercised.
CheckParked ==
    /\ accessTokenAuthEnabled = TRUE
    /\ req = [StackID |-> 1, Action |-> <<"r">>, Access |-> NilAccess,
               Identity |-> NilIdentity, Resource |-> NilResource,
               Contextual |-> <<>>]
    /\ pcache = [key \in PermKeys |-> Absent]
    /\ checkers = [c \in Checkers |-> IdleChecker]
    /\ nchecks = 0
    /\ reads = 0
    /\ pfault = FALSE
    /\ ctxDone = [c \in Checkers |-> FALSE]
    /\ watchers = [c \in Checkers |-> 0]
    /\ cachedFor = [key \in PermKeys |-> NoTriple]

\* The requests that reach the resolution of the permission set when
\* access-token checking is enabled.
ResolvingRequests ==
    {r \in Requests :
        /\ r.StackID = 1
        /\ r.Action = <<"r">>
        /\ r.Access = [nil |-> FALSE, namespace |-> namespaceFmt(1),
                       permissions |-> {}, delegated |-> {<<"r">>}]
        /\ ~r.Identity.nil /\ r.Identity.namespace = namespaceFmt(1)
        /\ r.Identity.subject = <<"u">>
        /\ r.Contextual = <<>>}

\* Requests of one tenant that reach the resolution of the permission set,
\* for subjects and actions with and without the '-' of the cache key.
MixedRequests ==
    {r \in Requests :
        /\ r.StackID = 1
        /\ r.Action # EmptyString
        /\ r.Access = [nil |-> FALSE, namespace |-> namespaceFmt(1),
                       permissions |-> {}, delegated |-> {r.Action}]
        /\ ~r.Identity.nil /\ r.Identity.namespace = namespaceFmt(1)
        /\ r.Identity.subject # EmptyString
        /\ r.Resource.ID # "2"
        /\ r.Contextual = <<>>}

KeysParked ==
    /\ kcache = [k \in KeyIDs |-> Absent]
    /\ group = [k \in SfKeys |-> 0]
    /\ calls = <<>>
    /\ getters = [c \in Callers |-> IdleGetter]
    /\ ngets = 0

(***************************************************************************)
(* Permission search: src/pkg/ac/client/client_test.go, lines 18-105.      *)
(* CacheWrap and the test's server are in the repository's files; the      *)
(* client's SearchUserPermissions is not, and is modelled as the           *)
(* specification describes it: a cache-wrapped HTTP call.                  *)
(***************************************************************************)
\* SearchUserPermissions calls made in one behaviour.
MaxSearches == 3

\* The test's perms table, lines 52-55.
perms ==
    [a \in {"users:read", "teams:read"} |->
        IF a = "users:read" THEN {"org.users:*"} ELSE {"teams:id:1", "teams:id:2"}]

SearchQueries == [Action : DOMAIN perms, UserID : {1, 2}]

\* models.UsersPermissions (nil: no result).
NoPermissions == [nil |-> TRUE, user |-> 0, action |-> "", scopes |-> {}]

UsersPermissions(user, action, scopes) ==
    [nil |-> FALSE, user |-> user, action |-> action, scopes |-> scopes]

\* strconv: the user id as the API renders it, and back.
atoi(s) == CHOOSE n \in {-1, 0, 1, 2} : itoa(n) = s

\* The test's server, lines 70-80: the user id is a string in the answer.
searchServer(query) ==
    [failed |-> FALSE, user |-> itoa(query.UserID), action |-> query.Action,
     scopes |-> perms[query.Action]]

ServerDown == [failed |-> TRUE, user |-> "", action |-> "", scopes |-> {}]

\* The client's decoding of the answer: the user ids become integers.
decodeSearch(resp) == UsersPermissions(atoi(resp.user), resp.action, resp.scopes)

\* The bytes the client caches for a result, and their decoding.
encodePermissions(p) ==
    [valid |-> TRUE, user |-> itoa(p.user), action |-> p.action, scopes |-> p.scopes]

decodePermissions(data) == UsersPermissions(atoi(data.user), data.action, data.scopes)

\* The cache key of a query.
searchCacheKey(query) == <<"search", query.Action, itoa(query.UserID)>>

SearchKeys == {searchCacheKey(q) : q \in SearchQueries}

\* CacheWrap.Get that counts every read, failed or not.
CacheWrapGetCountAll(w, key) ==
    LET r == CacheGet(w.cache, key) IN
    [wrap |-> [w EXCEPT !.successReadCnt = @ + 1], data |-> r.data, err |-> r.err]

\* CacheWrap.Get, lines 26-32: a read is counted when it succeeds.
CacheWrapGet(w, key) ==
    LET r == CacheGet(w.cache, key) IN
    [wrap |-> IF r.err = "nil" THEN [w EXCEPT !.successReadCnt = @ + 1] ELSE w,
     data |-> r.data, err |-> r.err]

\* CacheWrap.Set, lines 35-41: the local cache stores; the write is counted.
CacheWrapSet(w, key, data, ttl) ==
    [w EXCEPT !.cache = CacheSet(w.cache, key, data, ttl),
              !.successWriteCnt = @ + 1]

IdleSearcher == [pc |-> "idle", query |-> [Action |-> "users:read", UserID |-> 1]]

\* The record of one finished call, with the counters as it returned.
SearchRecord(query, got, err, w, from) ==
    [query |-> query, got |-> got, err |-> err, from |-> from,
     reads |-> w.successReadCnt, writes |-> w.successWriteCnt,
     remote |-> w.remoteCalls, expiries |-> w.expiries]

\* SearchUserPermissions, the cache lookup: a hit is decoded and returned.
SearchLookup(q) ==
    /\ searcher.pc \in {"idle", "done"}
    /\ Len(searches) < MaxSearches
    /\ LET r == CacheWrapGet(testCache, searchCacheKey(q)) IN
       /\ testCache' = r.wrap
       /\ IF r.err = "nil"
          THEN /\ searcher' = [pc |-> "done", query |-> q]
               /\ searches' = Append(searches,
                                 SearchRecord(q, decodePermissions(r.data), "nil",
                                              r.wrap, "cache"))
          ELSE /\ searcher' = [pc |-> "remote", query |-> q]
               /\ UNCHANGED searches
    /\ UNCHANGED <<kvars, cvars, vvars>>

\* SearchUserPermissions, the HTTP call: the answer is decoded, cached and
\* returned; a failed call is returned as an error.
SearchRemote(resp) ==
    /\ searcher.pc = "remote"
    /\ resp \in {ServerDown, searchServer(searcher.query)}
    /\ LET w == [testCache EXCEPT !.remoteCalls = @ + 1] IN
       IF resp.failed
       THEN /\ testCache' = w
            /\ searches' = Append(searches,
                              SearchRecord(searcher.query, NoPermissions,
                                           "ErrSearch", w, "remote"))
       ELSE LET got == decodeSearch(resp)
                w2 == CacheWrapSet(w, searchCacheKey(searcher.query),
                                   encodePermissions(got), DefaultExpiration)
            IN /\ testCache' = w2
               /\ searches' = Append(searches,
                                 SearchRecord(searcher.query, got, "nil", w2, "remote"))
    /\ searcher' = [searcher EXCEPT !.pc = "done"]
    /\ UNCHANGED <<kvars, cvars, vvars>>

\* The local cache drops an entry whose expiry (10 minutes, line 69) has
\* run out.
SearchExpire(key) ==
    /\ testCache.cache[key].present
    /\ testCache' = [testCache EXCEPT !.cache[key] = Absent, !.expiries = @ + 1]
    /\ UNCHANGED <<searcher, searches, kvars, cvars, vvars>>

\* The test's client, lines 69 and 83-87: an empty wrapped local cache.
SearchParked ==
    /\ testCache = [cache |-> [key \in SearchKeys |-> Absent],
                    successReadCnt |-> 0, successWriteCnt |-> 0,
                    remoteCalls |-> 0, expiries |-> 0]
    /\ searcher = IdleSearcher
    /\ searches = <<>>

SearchNext ==
    \/ \E q \in SearchQueries : SearchLookup(q)
    \/ \E resp \in {ServerDown} \cup {searchServer(q) : q \in SearchQueries} :
          SearchRemote(resp)
    \/ \E key \in SearchKeys : SearchExpire(key)

(***************************************************************************)
(* Token Verifier: src/authn/verifier.go                                   *)
(***************************************************************************)
\* Signature headers of a token (JWS JSON serialization carries several).
MaxHeaders == 2

TokenTypeID == "jwt"

TokenTypeAccess == "at+jwt"

\* The "typ" entry of a header's ExtraHeaders: missing, a string, or a
\* value that is no string.
TypValues == {"absent", "nonstring", TokenTypeID, TokenTypeAccess}

Headers == [typ : TypValues, KeyID : {"", "k1"}]

HeaderLists == UNION {[1..n -> Headers] : n \in 1..MaxHeaders}

\* A numeric date that is not set.
NoTime == 0

\* The leeway of jwt.Claims.Validate (jwt.DefaultLeeway), in minutes.
DefaultLeeway == 1

\* A token jwt.ParseSigned rejects.
MalformedToken ==
    [wellFormed |-> FALSE, headers |-> <<[typ |-> "absent", KeyID |-> ""]>>,
     sigValid |-> FALSE, exp |-> NoTime, nbf |-> NoTime, aud |-> {}]

\* The tokens of the model; times are minutes.
Tokens ==
    {MalformedToken} \cup
    [wellFormed : {TRUE}, headers : HeaderLists, sigValid : BOOLEAN,
     exp : {NoTime, 2, 4, 6}, nbf : {NoTime, 9}, aud : {{}, {"a"}}]

VerifierConfigs ==
    [tokenType : {"", TokenTypeID, TokenTypeAccess}, AllowedAudiences : {{}, {"a"}}]

\* What KeyRetriever.Get answers.
KeyOutcomes == {"nil", "ErrInvalidSigningKey", "ErrFetchingSigningKey"}

\* validType
validType(tok, typ) ==
    IF typ = "" THEN TRUE
    ELSE \E i \in 1..Len(tok.headers) :
            \/ tok.headers[i].typ \in {"absent", "nonstring"}
            \/ tok.headers[i].typ = typ

\* getKeyID: the first non-empty key id, or ErrInvalidSigningKey.
getKeyID(headers) ==
    IF \E i \in 1..Len(headers) : headers[i].KeyID # ""
    THEN [keyID |-> headers[CHOOSE i \in 1..Len(headers) :
                               /\ headers[i].KeyID # ""
                               /\ \A j \in 1..(i - 1) : headers[j].KeyID = ""].KeyID,
          err |-> "nil"]
    ELSE [keyID |-> "", err |-> "ErrInvalidSigningKey"]

\* parsed.Claims(jwk, ...): the signature is verified with the key before
\* the claims are decoded; a token with several signatures is refused.
parsedClaims(tok) ==
    IF Len(tok.headers) > 1 THEN "jose: too many signatures"
    ELSE IF ~tok.sigValid THEN "jose: error in cryptographic primitive"
    ELSE "nil"

\* claims.Validate(jwt.Expected{Audience, Time}): every expected audience,
\* then not-before, then expiry, each with the leeway.
claimsValidate(tok, audience, time) ==
    IF \E a \in audience : a \notin tok.aud THEN "jwt.ErrInvalidAudience"
    ELSE IF tok.nbf # NoTime /\ time + DefaultLeeway < tok.nbf THEN "jwt.ErrNotValidYet"
    ELSE IF tok.exp # NoTime /\ time - DefaultLeeway > tok.exp THEN "jwt.ErrExpired"
    ELSE "nil"

\* mapErr that maps nothing.
mapErrIdentity(err) == err

\* mapErr
mapErr(err) ==
    IF err = "jwt.ErrExpired" THEN "ErrExpiredToken"
    ELSE IF err = "jwt.ErrInvalidAudience" THEN "ErrInvalidAudience"
    ELSE err

\* VerifierBase.Verify: the error it returns ("nil": the claims).
VerifyErr(tok, cfg, keyErr, time) ==
    IF ~tok.wellFormed THEN "ErrParseToken"
    ELSE IF ~validType(tok, cfg.tokenType) THEN "ErrInvalidTokenType"
    ELSE IF getKeyID(tok.headers).err # "nil" THEN getKeyID(tok.headers).err
    ELSE IF keyErr # "nil" THEN keyErr
    ELSE IF parsedClaims(tok) # "nil" THEN parsedClaims(tok)
    ELSE IF claimsValidate(tok, cfg.AllowedAudiences, time) # "nil"
    THEN mapErr(claimsValidate(tok, cfg.AllowedAudiences, time))
    ELSE "nil"

\* One call of Verify on the token, with what the key retriever answers.
Verify(keyErr) ==
    /\ ~verified.done
    /\ verified' = [done |-> TRUE, keyErr |-> keyErr,
                    err |-> VerifyErr(token, vcfg, keyErr, now)]
    /\ UNCHANGED <<token, vcfg, now, kvars, cvars, svars>>

\* The verifier is asked again.
VerifyAgain ==
    /\ verified.done
    /\ verified' = [done |-> FALSE, keyErr |-> "nil", err |-> "nil"]
    /\ UNCHANGED <<token, vcfg, now, kvars, cvars, svars>>

VerifyParked ==
    /\ token = MalformedToken
    /\ vcfg = [tokenType |-> "", AllowedAudiences |-> {}]
    /\ now = 5
    /\ verified = [done |-> FALSE, keyErr |-> "nil", err |-> "nil"]

VerifyInit ==
    /\ KeysParked
    /\ CheckParked
    /\ SearchParked
    /\ token \in Tokens
    /\ vcfg \in VerifierConfigs
    /\ now \in {3, 5}
    /\ verified = [done |-> FALSE, keyErr |-> "nil", err |-> "nil"]

VerifyNext ==
    \/ \E keyErr \in KeyOutcomes : Verify(keyErr)
    \/ VerifyAgain

SpecVerify == VerifyInit /\ [][VerifyNext]_vars

\* The test's client, asked query after query.
SearchInit == KeysParked /\ CheckParked /\ VerifyParked /\ SearchParked

SpecSearch == SearchInit /\ [][SearchNext]_vars

\* One caller presenting any request, call after call.
CheckInit == KeysParked /\ VerifyParked /\ SearchParked /\ CheckInitWith(Requests, BOOLEAN)

CheckNext ==
    \/ CheckStart(1)
    \/ \E fault \in CacheFaults : CacheLookup(1, fault)
    \/ \E resp \in ReadResponses : RemoteRead(1, resp)
    \/ \E fault \in {"none", "error"} : CacheStore(1, fault)
    \/ \E key \in PermKeys : PermExpire(key)

SpecCheck == CheckInit /\ [][CheckNext]_vars

\* Concurrent callers presenting the same request.
CheckConcInit ==
    KeysParked /\ VerifyParked /\ SearchParked /\ CheckInitWith(ResolvingRequests, {TRUE})

CheckConcNext ==
    \/ \E c \in Checkers : CheckStart(c)
    \/ \E c \in Checkers, fault \in CacheFaults : CacheLookup(c, fault)
    \/ \E c \in Checkers, resp \in ReadResponses : RemoteRead(c, resp)
    \/ \E c \in Checkers, fault \in {"none", "error"} : CacheStore(c, fault)
    \/ \E key \in PermKeys : PermExpire(key)

SpecCheckConc == CheckConcInit /\ [][CheckConcNext]_vars

\* One caller presenting one request after another.
CheckMixedInit ==
    KeysParked /\ VerifyParked /\ SearchParked /\ CheckInitWith(MixedRequests, {TRUE})

CheckMixedNext ==
    \/ CheckStart(1)
    \/ \E fault \in CacheFaults : CacheLookup(1, fault)
    \/ \E resp \in ReadResponses : RemoteRead(1, resp)
    \/ \E fault \in {"none", "error"} : CacheStore(1, fault)
    \/ \E key \in PermKeys : PermExpire(key)
    \/ \E r \in MixedRequests : ChangeRequest(r)

SpecCheckMixed == CheckMixedInit /\ [][CheckMixedNext]_vars

\* One caller whose requests reach the remote read, its context and the
\* watcher goroutines.  The steps of a Check call and of a watcher that can
\* run are taken eventually; the caller need never cancel its context.
WatchInit == CheckConcInit

WatchNext ==
    \/ CheckStart(1)
    \/ \E fault \in CacheFaults : CacheLookup(1, fault)
    \/ \E resp \in ReadResponses : RemoteRead(1, resp)
    \/ \E fault \in {"none", "error"} : CacheStore(1, fault)
    \/ \E key \in PermKeys : PermExpire(key)
    \/ CtxCancel(1)
    \/ WatcherExit(1)

WatchFairness ==
    /\ WF_vars(\E fault \in CacheFaults : CacheLookup(1, fault))
    /\ WF_vars(\E resp \in ReadResponses : RemoteRead(1, resp))
    /\ WF_vars(\E fault \in {"none", "error"} : CacheStore(1, fault))
    /\ WF_vars(WatcherExit(1))

SpecWatch == WatchInit /\ [][WatchNext]_vars /\ WatchFairness

KeysStart == KeysInit /\ CheckParked /\ VerifyParked /\ SearchParked

SpecKeys == KeysStart /\ [][KeysNext]_vars

\* Callers that may cancel their context while their Get is blocked.  The
\* endpoint may never answer; a request whose context is done is aborted,
\* and every step of Get and of singleflight that can run is taken
\* eventually.
KeysCtxNext ==
    \/ KeysNext
    \/ \E c \in Callers : GetCtxCancel(c)
    \/ \E c \in Callers : FetchAbort(c)

KeysCtxFairness ==
    \A c \in Callers :
        /\ WF_vars(FetchAbort(c))
        /\ WF_vars(DoEnter(c))
        /\ WF_vars(DoCallDone(c))
        /\ WF_vars(WaitReturn(c))
        /\ WF_vars(Recheck(c))
        /\ WF_vars(SetEmpty(c))

SpecKeysCtx == KeysStart /\ [][KeysCtxNext]_vars /\ KeysCtxFairness

(***************************************************************************)
(* Key Provider: the claims, checked under SpecKeys.                       *)
(***************************************************************************)
\* The endpoint's answer is a failure: a transport error, a status other
\* than 200 or a body that does not decode.
FetchFailed(resp) ==
    resp.transport = "error" \/ resp.status # 200 \/ resp.body # "jwks"

EmptyPlaceholder(k) == [key |-> k, data |-> <<>>, ttl |-> cacheTTL]

\* Every caller made one Get for k1, each of them missed the cache before
\* any fetch had been started, and all of them have returned.
C3_AllSimultaneousDone ==
    /\ ngets = NumCallers
    /\ \A c \in Callers :
          /\ getters[c].pc = "done"
          /\ getters[c].n = 1
          /\ getters[c].keyID = "k1"
          /\ getters[c].hit = "miss"
          /\ getters[c].callsAtLookup = 0

\* C3: N simultaneous Get calls for a key id that is not cached perform
\* exactly one remote key-set fetch, under every interleaving of the cache
\* lookups and singleflight entries.
C3_ExactlyOneFetch == C3_AllSimultaneousDone => Len(calls) = 1

\* C4: at most one remote key-set fetch is in flight, whatever key ids the
\* callers ask for; a caller that enters Do while a fetch is in flight waits
\* for that very fetch, and every caller gets the outcome of the call it
\* waited for.
C4_OneInFlightSharedOutcome ==
    /\ Cardinality(InFlight) <= 1
    /\ \A c \in Callers :
          /\ (getters[c].call # 0 /\ getters[c].inflightAtEnter # 0)
                => getters[c].call = getters[c].inflightAtEnter
          /\ (getters[c].call # 0 /\ getters[c].pc \in {"recheck", "setEmpty", "done"})
                => /\ getters[c].doErr = calls[getters[c].call].err
                   /\ (getters[c].doErr # "nil" => getters[c].err = getters[c].doErr)

\* Two callers asking for different key ids shared one failed fetch: the
\* second joined it while it was in flight and got its error.
C4_Witness ==
    \E c1, c2 \in Callers :
        /\ c1 # c2
        /\ getters[c1].pc = "done" /\ getters[c2].pc = "done"
        /\ getters[c1].keyID # getters[c2].keyID
        /\ getters[c1].leader /\ ~getters[c2].leader
        /\ getters[c2].call = getters[c1].call
        /\ getters[c2].inflightAtEnter = getters[c1].call
        /\ getters[c2].err = "ErrFetchingSigningKey"
        /\ Len(calls) = 1

\* C6 as stated: whenever the fetch a Get waited for succeeded without the
\* requested key id, that Get stored the placeholder and failed with
\* ErrInvalidSigningKey.
C6_FetchWithoutKeyStoresPlaceholder ==
    \A c \in Callers :
        (/\ getters[c].pc = "done"
         /\ getters[c].call # 0
         /\ ~FetchFailed(calls[getters[c].call].resp)
         /\ getters[c].keyID \notin calls[getters[c].call].resp.keys)
        => /\ getters[c].err = "ErrInvalidSigningKey"
           /\ EmptyPlaceholder(getters[c].keyID) \in getters[c].wrote

\* C6, amended: when the fetch succeeded and the key id is still absent
\* from the cache at the re-check, Get stores the empty placeholder with the
\* bounded TTL and fails with ErrInvalidSigningKey; a Get that finds the
\* placeholder fails with ErrInvalidSigningKey without a fetch and without
\* a write; the placeholder always carries the bounded TTL (so it expires),
\* and a Get that finds the id absent (as after the expiry) goes through a
\* remote fetch again.
C6_NegativeCaching ==
    /\ \A c \in Callers :
          /\ (getters[c].pc = "done" /\ getters[c].recheck = "miss")
                => /\ getters[c].doErr = "nil"
                   /\ getters[c].err = "ErrInvalidSigningKey"
                   /\ EmptyPlaceholder(getters[c].keyID) \in getters[c].wrote
          /\ (getters[c].pc = "done" /\ getters[c].hit = "empty")
                => /\ getters[c].err = "ErrInvalidSigningKey"
                   /\ getters[c].call = 0
                   /\ getters[c].wrote = {}
          /\ (getters[c].pc = "done" /\ getters[c].hit = "miss")
                => /\ getters[c].call # 0
                   /\ calls[getters[c].call].state = "done"
    /\ \A k \in KeyIDs :
          (kcache[k].present /\ kcache[k].data = <<>>) => kcache[k].ttl = cacheTTL

\* One Get stored the placeholder for a key id after a successful fetch, and
\* a later Get for that id was answered from it, without a fetch.
C6_Witness ==
    \E c1, c2 \in Callers :
        /\ c1 # c2
        /\ getters[c1].pc = "done" /\ getters[c2].pc = "done"
        /\ getters[c1].keyID = getters[c2].keyID
        /\ getters[c1].recheck = "miss"
        /\ EmptyPlaceholder(getters[c1].keyID) \in getters[c1].wrote
        /\ getters[c2].hit = "empty"
        /\ getters[c2].err = "ErrInvalidSigningKey"
        /\ Len(calls) = 1

\* C7: a Get whose fetch failed (transport error, non-200 status or
\* undecodable body) fails with ErrFetchingSigningKey and writes nothing to
\* the cache; the failure is not remembered: no Get is ever answered by a
\* fetch that had completed before the Get looked the key up, and the
\* singleflight group never holds a completed call.
C7_FailedFetchNotRemembered ==
    /\ \A c \in Callers :
          /\ (/\ getters[c].pc = "done"
              /\ getters[c].call # 0
              /\ FetchFailed(calls[getters[c].call].resp))
                => /\ getters[c].err = "ErrFetchingSigningKey"
                   /\ getters[c].wrote = {}
                   /\ getters[c].recheck = "none"
          /\ getters[c].call # 0 => getters[c].call \notin getters[c].doneAtLookup
    /\ \A i \in 1..Len(calls) :
          (calls[i].state # "running" /\ FetchFailed(calls[i].resp))
             => \A c \in Callers : getters[c].call = i => getters[c].wrote = {}
    /\ \A key \in SfKeys : group[key] # 0 => calls[group[key]].state # "done"

\* A first Get failed with ErrFetchingSigningKey and left the cache empty; a
\* Get that started after that fetch had completed is running a second fetch.
C7_Witness ==
    \E c1, c2 \in Callers :
        /\ c1 # c2
        /\ getters[c1].pc = "done"
        /\ getters[c1].err = "ErrFetchingSigningKey"
        /\ getters[c1].call = 1
        /\ \A k \in KeyIDs : ~kcache[k].present
        /\ getters[c2].pc = "fetching"
        /\ getters[c2].doneAtLookup = {1}
        /\ getters[c2].call = 2

\* The Get of the caller is blocked in singleflight.Do: it runs the fetch,
\* or it waits for the fetch another caller runs.
BlockedOnFetch(c) == getters[c].pc \in {"fetching", "waiting"}

\* C15: a Get that is blocked on the remote key-set fetch stops blocking and
\* returns once its own caller's context is cancelled, both when the caller
\* started the fetch and when it waits on a fetch started by another caller.
C15_CancelledGetReturns ==
    \A c \in Callers :
        (BlockedOnFetch(c) /\ getters[c].ctxDone) ~> ~BlockedOnFetch(c)

\* What Get does do: the caller that runs the fetch returns once its context
\* is cancelled.
C15_CancelledLeaderReturns ==
    \A c \in Callers :
        (getters[c].pc = "fetching" /\ getters[c].ctxDone)
           ~> (getters[c].pc = "done")

\* The cache holds a verification key for the key id.
HoldsKey(cache, k) == cache[k].present /\ Len(cache[k].data) > 0

\* The cache holds the known-invalid placeholder for the key id.
HoldsPlaceholder(cache, k) == cache[k].present /\ Len(cache[k].data) = 0

\* C22: under every interleaving of concurrent Get calls and remote
\* fetches, a valid verification key written to the cache for a key id is
\* never replaced by the known-invalid placeholder.
C22_NoClobbering ==
    [][\A k \in KeyIDs :
          HoldsKey(kcache, k) => ~HoldsPlaceholder(kcache', k)]_vars

(***************************************************************************)
(* Permission Decision Engine: the claims, checked under SpecCheck (one    *)
(* caller, every request) and SpecCheckConc (concurrent callers).          *)
(***************************************************************************)
\* The request has one of the four shape violations.
InvalidShape(r) ==
    \/ r.StackID <= 0
    \/ r.Action = EmptyString
    \/ (accessTokenAuthEnabled /\ r.Access.nil)
    \/ (~r.Identity.nil /\ r.Identity.subject = EmptyString)

\* The access claims (when checked) or the identity claims (when present)
\* are of another namespace than the one rendered from the StackID.
NamespaceMismatch(r) ==
    \/ (accessTokenAuthEnabled
          /\ ~NamespaceMatches(r.Access, namespaceFmt(r.StackID)))
    \/ (~r.Identity.nil
          /\ ~NamespaceMatches(r.Identity, namespaceFmt(r.StackID)))

\* The call touched neither the cache nor the remote.
NoIO(k) == k.cacheGets = 0 /\ k.cacheSets = 0 /\ k.remoteReads = 0

\* Nothing has been read remotely or cached by any call.
NothingTouched ==
    /\ reads = 0
    /\ \A key \in PermKeys : ~pcache[key].present
    /\ \A c \in Checkers : checkers[c].pc \in {"idle", "done"}

\* C1: a request that passes validation and whose access claims (when
\* access-token checking is enabled) or identity claims (when present) do
\* not match the namespace of the StackID is denied with (false, nil), with
\* no cache lookup and no remote read.
C1_NamespaceMismatchDenied ==
    (~InvalidShape(req) /\ NamespaceMismatch(req))
    => /\ NothingTouched
       /\ \A c \in Checkers :
             checkers[c].pc = "done"
             => ~checkers[c].ok /\ checkers[c].err = "nil" /\ NoIO(checkers[c])

\* A request whose service holds the delegated permission and whose access
\* claims match, but whose identity claims are of another namespace, has
\* been denied.
C1_Witness ==
    /\ checkers[1].pc = "done"
    /\ accessTokenAuthEnabled
    /\ ~InvalidShape(req)
    /\ NamespaceMatches(req.Access, namespaceFmt(req.StackID))
    /\ req.Action \in req.Access.delegated
    /\ ~req.Identity.nil
    /\ ~NamespaceMatches(req.Identity, namespaceFmt(req.StackID))
    /\ ~checkers[1].ok /\ checkers[1].err = "nil"

\* C2: Check fails fast on an invalid request shape: StackID <= 0 gives
\* ErrMissingStackID, an empty action ErrMissingAction, nil access claims
\* under access-token checking ErrMissingCaller, an identity with an empty
\* subject ErrMissingSubject (each when the checks before it pass); the
\* result is false and neither the cache nor the remote is touched.
C2_FailFast ==
    InvalidShape(req)
    => /\ NothingTouched
       /\ \A c \in Checkers :
             checkers[c].pc = "done"
             => /\ ~checkers[c].ok
                /\ NoIO(checkers[c])
                /\ checkers[c].err =
                      (IF req.StackID <= 0 THEN "ErrMissingStackID"
                       ELSE IF req.Action = EmptyString THEN "ErrMissingAction"
                       ELSE IF accessTokenAuthEnabled /\ req.Access.nil
                       THEN "ErrMissingCaller"
                       ELSE "ErrMissingSubject")

\* A request that is invalid only by its identity's empty subject, and that
\* would otherwise go on to the permission lookup, has failed with
\* ErrMissingSubject.
C2_Witness ==
    /\ checkers[1].pc = "done"
    /\ checkers[1].err = "ErrMissingSubject"
    /\ ~checkers[1].ok
    /\ accessTokenAuthEnabled
    /\ req.StackID = 1
    /\ NamespaceMatches(req.Access, namespaceFmt(1))
    /\ NamespaceMatches(req.Identity, namespaceFmt(1))
    /\ req.Action \in req.Access.delegated

\* C5: Check calls with identical inputs that reach the permission-set
\* resolution, with every remote read and cache call succeeding and no
\* expiry, issue exactly one remote read in total, however they interleave.
C5_ExactlyOneRead ==
    (/\ ~pfault
     /\ nchecks >= 1
     /\ \A c \in Checkers : checkers[c].pc \in {"idle", "done"})
    => reads = 1

\* C5 for calls made one after the other by one caller.
C5_SequentialOneRead ==
    (/\ ~pfault
     /\ ~PreCheck(req).return
     /\ nchecks >= 1
     /\ checkers[1].pc = "done")
    => /\ reads = 1
       /\ (checkers[1].n >= 2 => checkers[1].from = "cache")

\* C8: a Check that reaches a permission set whose wildcard set holds the
\* universal kind "*" returns true, whatever the primary and contextual
\* resources are and wherever the set came from.
C8_UniversalWildcardAllows ==
    \A c \in Checkers :
        (/\ checkers[c].pc = "done"
         /\ checkers[c].resolved
         /\ "*" \in checkers[c].ctrl.Wildcard.elems)
        => checkers[c].ok /\ checkers[c].err = "nil"

\* A permission set decoded from the cache, holding only the universal
\* wildcard, has allowed a request for a resource of another kind with a
\* contextual resource.
C8_Witness ==
    /\ checkers[1].pc = "done"
    /\ checkers[1].from = "cache"
    /\ checkers[1].ctrl.Wildcard.elems = {"*"}
    /\ checkers[1].ctrl.Scopes.elems = {}
    /\ ~req.Resource.nil /\ req.Resource.Kind = "dash"
    /\ req.Contextual # <<>>
    /\ checkers[1].ok

\* C9: a request without a primary resource whose resolved permission set
\* has Found = true is allowed with (true, nil), whatever the scopes, the
\* wildcards and the contextual resources.
C9_ActionOnlyAllowed ==
    \A c \in Checkers :
        (/\ checkers[c].pc = "done"
         /\ checkers[c].resolved
         /\ checkers[c].ctrl.Found
         /\ req.Resource.nil)
        => checkers[c].ok /\ checkers[c].err = "nil"

\* A request with no primary resource and a contextual one has been allowed
\* on a Found permission set with no scope and no wildcard.
C9_Witness ==
    /\ checkers[1].pc = "done"
    /\ checkers[1].resolved
    /\ checkers[1].ctrl.Found
    /\ checkers[1].ctrl.Scopes.elems = {}
    /\ checkers[1].ctrl.Wildcard.elems = {}
    /\ req.Resource.nil
    /\ req.Contextual # <<>>
    /\ checkers[1].ok /\ checkers[1].err = "nil"

\* The permission sets newController can produce.
Controllers == {newController(resp) : resp \in {x \in ReadResponses : ~x.err}}

\* C12: a permission set produced by newController (Found false; or Found
\* true with any, possibly empty, scope and wildcard sets), stored with
\* cacheController and read back with getCachedController under the same
\* key, comes back equal in Found, Scopes and Wildcard.
C12_RoundTrip ==
    /\ \A ctrl \in Controllers, key \in PermKeys :
          getCachedController(
              cacheController(pcache, key, ctrl, "none").cache, key, "none")
             = [ctrl |-> ctrl, err |-> "nil"]
    /\ \A c \in Checkers :
          (/\ checkers[c].pc = "done"
           /\ checkers[c].from = "remote"
           /\ checkers[c].cacheSets = 1
           /\ checkers[c].err = "nil"
           /\ pcache[RequestKey].present)
          => getCachedController(pcache, RequestKey, "none")
                = [ctrl |-> checkers[c].ctrl, err |-> "nil"]
    /\ \A c \in Checkers :
          (/\ checkers[c].pc = "done"
           /\ checkers[c].from = "cache"
           /\ checkers[c].err = "nil")
          => checkers[c].ctrl \in Controllers

\* A second Check has read back from the cache a Found permission set whose
\* scope and wildcard maps are made but empty.
C12_Witness ==
    /\ checkers[1].pc = "done"
    /\ checkers[1].n = 2
    /\ checkers[1].from = "cache"
    /\ checkers[1].err = "nil"
    /\ checkers[1].ctrl = [Found |-> TRUE, Scopes |-> MakeMap({}),
                           Wildcard |-> MakeMap({})]

\* C14: every watcher goroutine started by newOutgoingContext for a remote
\* read eventually terminates, also when the read returns and the caller's
\* context is never cancelled.
C14_WatcherTerminates ==
    \A c \in Checkers : (watchers[c] > 0) ~> (watchers[c] = 0)

\* C14, the part on the owning call: no watcher is left running once the
\* Check calls of its caller have returned.
C14_NoWatcherOutlivesCheck ==
    \A c \in Checkers : checkers[c].pc = "done" => watchers[c] = 0

\* What the watcher does do: it terminates once the caller's context is
\* done.
C14_WatcherTerminatesOnCancel ==
    \A c \in Checkers : (watchers[c] > 0 /\ ctxDone[c]) ~> (watchers[c] = 0)

\* C16: only the cache's not-found error leads to the remote read.  When the
\* cache Get fails with another error, or returns bytes that do not decode
\* as a permission set, Check returns (false, that error) and makes no
\* remote read and no cache write.
C16_OnlyNotFoundReadsRemote ==
    \A c \in Checkers :
        /\ checkers[c].lookupFault # "none"
           => /\ checkers[c].pc = "done"
              /\ ~checkers[c].ok
              /\ checkers[c].err = (IF checkers[c].lookupFault = "error"
                                    THEN "ErrCache" ELSE "ErrGobDecode")
              /\ checkers[c].remoteReads = 0
              /\ checkers[c].cacheSets = 0
        /\ checkers[c].pc \in {"read", "cacheSet"}
           => /\ checkers[c].lookupFault = "none"
              /\ ~pcache[RequestKey].present \/ checkers[c].pc = "cacheSet"

\* A Check whose cache lookup returned undecodable bytes, while the cache
\* was empty, has failed with the decoding error without a remote read.
C16_Witness ==
    /\ checkers[1].pc = "done"
    /\ checkers[1].lookupFault = "garbage"
    /\ checkers[1].err = "ErrGobDecode"
    /\ ~checkers[1].ok
    /\ reads = 0
    /\ \A key \in PermKeys : ~pcache[key].present

\* C17: a valid, namespace-matching request with no end-user identity is
\* decided on the service alone: allowed for every action when access-token
\* checking is disabled, otherwise allowed exactly when the action is an
\* entry of the access claims' own permission list, and denied with
\* (false, nil) when it is not; no cache interaction and no remote read.
C17_ServiceOnlyDecision ==
    (~InvalidShape(req) /\ ~NamespaceMismatch(req) /\ req.Identity.nil)
    => /\ NothingTouched
       /\ \A c \in Checkers :
             checkers[c].pc = "done"
             => /\ checkers[c].err = "nil"
                /\ NoIO(checkers[c])
                /\ checkers[c].ok
                      <=> (~accessTokenAuthEnabled
                           \/ req.Action \in req.Access.permissions)

\* With access-token checking enabled, a request without identity has been
\* allowed on the service's own permission, which it holds as own only.
C17_Witness ==
    /\ checkers[1].pc = "done"
    /\ accessTokenAuthEnabled
    /\ req.Identity.nil
    /\ ~InvalidShape(req) /\ ~NamespaceMismatch(req)
    /\ req.Action \in req.Access.permissions
    /\ req.Action \notin req.Access.delegated
    /\ checkers[1].ok /\ checkers[1].err = "nil"

\* C18: a valid, namespace-matching request with an end-user identity, under
\* access-token checking, whose action is not among the access claims'
\* delegated permissions is denied with (false, nil) before any cache lookup
\* or remote read, whatever the service's own permissions are.
C18_NoDelegationDenied ==
    (/\ ~InvalidShape(req) /\ ~NamespaceMismatch(req)
     /\ ~req.Identity.nil
     /\ accessTokenAuthEnabled
     /\ req.Action \notin req.Access.delegated)
    => /\ NothingTouched
       /\ \A c \in Checkers :
             checkers[c].pc = "done"
             => ~checkers[c].ok /\ checkers[c].err = "nil" /\ NoIO(checkers[c])

\* A request with an identity whose service holds the action as an own
\* permission, but not as a delegated one, has been denied.
C18_Witness ==
    /\ checkers[1].pc = "done"
    /\ accessTokenAuthEnabled
    /\ ~req.Identity.nil
    /\ ~InvalidShape(req) /\ ~NamespaceMismatch(req)
    /\ req.Action \in req.Access.permissions
    /\ req.Action \notin req.Access.delegated
    /\ ~checkers[1].ok /\ checkers[1].err = "nil"

\* The primary and the contextual resources of the request, as Check hands
\* them to controller.Check.
RequestResources == req.Contextual \o <<req.Resource>>

\* C19: on a resolved permission set with Found = true and a request with a
\* primary resource, Check returns true if and only if the wildcard set
\* holds "*", or some resource among the primary and the contextual ones has
\* its kind in the wildcard set or its canonical scope in the exact-scope
\* set; so with wildcard set {teams} and no exact scope every teams-kind
\* resource is allowed and a request whose resources are all of other kinds
\* is denied.
C19_ScopeEvaluation ==
    \A c \in Checkers :
        (/\ checkers[c].pc = "done"
         /\ checkers[c].resolved
         /\ checkers[c].ctrl.Found
         /\ ~req.Resource.nil)
        => /\ checkers[c].err = "nil"
           /\ checkers[c].ok
                 <=> \/ "*" \in checkers[c].ctrl.Wildcard.elems
                     \/ \E i \in 1..Len(RequestResources) :
                           \/ RequestResources[i].Kind
                                 \in checkers[c].ctrl.Wildcard.elems
                           \/ Scope(RequestResources[i])
                                 \in checkers[c].ctrl.Scopes.elems
           /\ (/\ checkers[c].ctrl.Wildcard.elems = {"teams"}
               /\ checkers[c].ctrl.Scopes.elems = {})
              => (checkers[c].ok
                    <=> \E i \in 1..Len(RequestResources) :
                           RequestResources[i].Kind = "teams")

\* With wildcard set {teams} and no exact scope, a request for a resource of
\* another kind has been allowed on its contextual teams resource.
C19_Witness ==
    /\ checkers[1].pc = "done"
    /\ checkers[1].resolved
    /\ checkers[1].ctrl.Wildcard.elems = {"teams"}
    /\ checkers[1].ctrl.Scopes.elems = {}
    /\ ~req.Resource.nil /\ req.Resource.Kind = "dash"
    /\ req.Contextual # <<>> /\ req.Contextual[1].Kind = "teams"
    /\ checkers[1].ok

\* C20: Check never returns true together with an error; when validation,
\* the cache lookup, the remote read (reported as ErrReadPermission) or the
\* cache write after a successful remote read fails, the decision is false.
C20_FailClosed ==
    \A c \in Checkers :
        checkers[c].pc = "done"
        => /\ checkers[c].err # "nil" => ~checkers[c].ok
           /\ InvalidShape(req) => (checkers[c].err # "nil" /\ ~checkers[c].ok)
           /\ checkers[c].lookupFault # "none"
              => (checkers[c].err # "nil" /\ ~checkers[c].ok)
           /\ (checkers[c].remoteReads = 1 /\ checkers[c].cacheSets = 0)
              => (checkers[c].err = "ErrReadPermission" /\ ~checkers[c].ok)
           /\ checkers[c].storeFault # "none"
              => (checkers[c].err # "nil" /\ ~checkers[c].ok)

\* The cache write of a freshly read permission set that grants everything
\* has failed, and the Check has returned false with the error.
C20_Witness ==
    /\ checkers[1].pc = "done"
    /\ checkers[1].storeFault = "error"
    /\ checkers[1].remoteReads = 1
    /\ checkers[1].ctrl.Found
    /\ "*" \in checkers[1].ctrl.Wildcard.elems
    /\ ~checkers[1].ok
    /\ checkers[1].err = "ErrCache"

\* The (tenant id, subject, action) triples of the model.
Triples ==
    {<<s, su, a>> : s \in {x \in StackIDs : x > 0},
                    su \in Subjects \ {EmptyString}, a \in Actions \ {EmptyString}}

\* C21, the key: controllerCacheKey is injective on (tenant id, subject,
\* action), also for subjects and actions that contain '-'.
C21_KeyInjective ==
    \A t1, t2 \in Triples :
        controllerCacheKey(t1[1], t1[2], t1[3]) = controllerCacheKey(t2[1], t2[2], t2[3])
        => t1 = t2

\* C21: after any sequence of Check calls, a Check for one (tenant id,
\* subject, action) is never decided from a permission set that was fetched
\* and cached for another one.
C21_CacheIsolation ==
    \A c \in Checkers :
        (/\ checkers[c].pc = "done"
         /\ checkers[c].from = "cache"
         /\ checkers[c].lookupFault = "none"
         /\ checkers[c].err = "nil")
        => checkers[c].hitFor = checkers[c].triple

\* What does hold: a Check is decided from a cached set only if that set
\* was cached under the key of its own request.
C21_SameKey ==
    \A c \in Checkers :
        (/\ checkers[c].pc = "done"
         /\ checkers[c].from = "cache"
         /\ checkers[c].lookupFault = "none"
         /\ checkers[c].err = "nil")
        => controllerCacheKey(checkers[c].hitFor[1], checkers[c].hitFor[2],
                              checkers[c].hitFor[3])
              = controllerCacheKey(checkers[c].triple[1], checkers[c].triple[2],
                                   checkers[c].triple[3])

(***************************************************************************)
(* Permission search: the claim, checked under SpecSearch.                 *)
(***************************************************************************)
\* The permission map the remote holds for a query.
ExpectedPermissions(q) == UsersPermissions(q.UserID, q.Action, perms[q.Action])

\* C13: against an initially empty cache, the first SearchUserPermissions
\* call gets the permission map from the remote, returns it, and makes
\* exactly one successful cache write and no successful cache read; a second
\* identical call returns the same map with exactly one successful cache
\* read and no further cache write.
C13_SecondCallFromCache ==
    /\ (Len(searches) >= 1 /\ searches[1].err = "nil")
       => /\ searches[1].from = "remote"
          /\ searches[1].remote = 1
          /\ searches[1].got = ExpectedPermissions(searches[1].query)
          /\ searches[1].writes = 1
          /\ searches[1].reads = 0
    /\ (/\ Len(searches) >= 2
        /\ searches[1].err = "nil"
        /\ searches[2].query = searches[1].query
        /\ searches[2].expiries = 0)
       => /\ searches[2].err = "nil"
          /\ searches[2].got = searches[1].got
          /\ searches[2].reads = 1
          /\ searches[2].writes = 1
          /\ searches[2].remote = 1

\* The test's scenario: users:read for user 1, asked twice; the second call
\* was served from the cache.
C13_Witness ==
    /\ Len(searches) >= 2
    /\ searches[1].query = [Action |-> "users:read", UserID |-> 1]
    /\ searches[2].query = searches[1].query
    /\ searches[1].got = UsersPermissions(1, "users:read", {"org.users:*"})
    /\ searches[2].from = "cache"
    /\ searches[2].got = searches[1].got
    /\ searches[2].reads = 1 /\ searches[2].writes = 1

(***************************************************************************)
(* Token Verifier: the claims, checked under SpecVerify.                   *)
(***************************************************************************)
\* The token's expiry is set and lies in the past.
ExpiryInPast == token.exp # NoTime /\ token.exp < now

\* The token's expiry lies more than the validation leeway in the past.
ExpiryPastLeeway == token.exp # NoTime /\ token.exp < now - DefaultLeeway

\* The token passes every check Verify makes before the expiry, but for
\* the validity of its signature: the token type, a key id, the key's
\* resolution, a single signature, the expected audiences and not-before.
PassesAllButSignature ==
    /\ token.wellFormed
    /\ validType(token, vcfg.tokenType)
    /\ \E i \in 1..Len(token.headers) : token.headers[i].KeyID # ""
    /\ verified.keyErr = "nil"
    /\ Len(token.headers) = 1
    /\ vcfg.AllowedAudiences \subseteq token.aud
    /\ (token.nbf = NoTime \/ token.nbf <= now + DefaultLeeway)

\* C10 as stated: a well-formed token whose expiry is in the past (here
\* even beyond the leeway, and passing every other check) fails with
\* ErrExpiredToken, whether or not its signature is valid.
C10_ExpiredWhateverSignature ==
    (verified.done /\ PassesAllButSignature /\ ExpiryPastLeeway)
    => verified.err = "ErrExpiredToken"

\* The token passes every check Verify makes before the expiry.
PassesEarlierChecks == PassesAllButSignature /\ token.sigValid

\* C10, amended: a well-formed token whose expiry lies more than the
\* validation leeway in the past never verifies, whatever its signature;
\* it fails with ErrExpiredToken when it passes every earlier check, and
\* with the signature error when its signature is not valid for the key.
C10_ExpiredAfterSignature ==
    (verified.done /\ token.wellFormed /\ ExpiryPastLeeway)
    => /\ verified.err # "nil"
       /\ PassesEarlierChecks => verified.err = "ErrExpiredToken"
       /\ (PassesAllButSignature /\ ~token.sigValid)
          => verified.err = "jose: error in cryptographic primitive"

\* A validly signed token of the configured type and audience, expired
\* beyond the leeway, has failed with ErrExpiredToken.
C10_Witness ==
    /\ verified.done
    /\ ExpiryPastLeeway
    /\ PassesEarlierChecks
    /\ vcfg.tokenType = TokenTypeAccess
    /\ token.headers[1].typ = TokenTypeAccess
    /\ vcfg.AllowedAudiences = {"a"}
    /\ verified.err = "ErrExpiredToken"

\* Some signature header of the token carries a "typ" entry that is not the
\* configured token type.
CarriesOtherTyp ==
    \E i \in 1..Len(token.headers) :
        token.headers[i].typ \notin {"absent", vcfg.tokenType}

\* No signature header of the token carries a "typ" entry.
CarriesNoTyp ==
    \A i \in 1..Len(token.headers) : token.headers[i].typ = "absent"

\* C11: with a non-empty token type configured, Verify fails with
\* ErrInvalidTokenType for every token that carries a typ header other than
\* the configured type, and lets a token through the type check without a
\* matching typ only when it carries no typ header at all, whatever the
\* number of signature headers.
C11_OtherTypRejected ==
    (verified.done /\ token.wellFormed /\ vcfg.tokenType # "")
    => /\ CarriesOtherTyp => verified.err = "ErrInvalidTokenType"
       /\ CarriesNoTyp => verified.err # "ErrInvalidTokenType"

\* What validType does decide: the token fails with ErrInvalidTokenType
\* exactly when every signature header carries a string typ other than the
\* configured type.
C11_EveryHeaderOtherString ==
    (verified.done /\ token.wellFormed /\ vcfg.tokenType # "")
    => (verified.err = "ErrInvalidTokenType"
        <=> \A i \in 1..Len(token.headers) :
               token.headers[i].typ \notin {"absent", "nonstring", vcfg.tokenType})

\* A token with one signature header whose typ is not a string has been
\* verified by a verifier configured for access tokens.
C11_NonStringTypAccepted ==
    /\ verified.done
    /\ vcfg.tokenType = TokenTypeAccess
    /\ Len(token.headers) = 1
    /\ token.headers[1].typ = "nonstring"
    /\ verified.err = "nil"

====
